---- MODULE Spec2Model ----
(***************************************************************************)
(* Model of the auction application (auctions/models.py, auctions/views.py) *)
(*                                                                         *)
(* The relational store is modelled by four variables:                     *)
(*   items     - sequence of Item rows in creation (primary key) order     *)
(*   bids      - sequence of Bid rows in creation order                    *)
(*   comments  - sequence of Comment rows in creation order                *)
(*   watchlist - the User.watchlist many-to-many relation, as a set of     *)
(*               <<user, item>> pairs                                      *)
(* response is what the last handled request was and the message the      *)
(* handler produced for it.  workers holds the place-bid requests that are *)
(* in flight when requests are handled concurrently (SpecConc).            *)
(*                                                                         *)
(* Money is counted in thousandths of the currency unit (mills): 10 mills  *)
(* are one cent.  A posted amount may carry sub-cent digits; the store     *)
(* keeps two decimal places (DecimalField(decimal_places=2)).              *)
(***************************************************************************)
EXTENDS Integers, Sequences, FiniteSets, TLC

VARIABLES items, bids, comments, watchlist, response, workers

vars == <<items, bids, comments, watchlist, response, workers>>
db == <<items, bids, comments, watchlist>>

\* ---------------------------------------------------------------- bounds
NumUsers == 2
MaxItems == 2
MaxRows == 4
MaxCents == 1
MaxStartCents == 1
NumWorkers == 2

\* ---------------------------------------------------------------- inputs
\* request.user of a request without a login session (AnonymousUser)
Anonymous == 0
Users == 1..NumUsers
Requesters == Users \cup {Anonymous}
ItemIds == 1..MaxItems
\* sub-cent digits of a posted amount: exact, rounds down, tie, rounds up
SubCent == {0, 4, 5, 6}
Amounts == {c * 10 + d : c \in 0..MaxCents, d \in SubCent}
\* form["starting_bid"] of a create request
StartAmounts == {c * 10 : c \in 0..MaxStartCents}
\* request.POST["bid_place"]: a numeric string, or one float() refuses
BidInputs == [numeric : {TRUE}, value : Amounts] \cup [numeric : {FALSE}, value : {0}]
WorkerIds == 1..NumWorkers

\* ---------------------------------------------------------------- store
\* What DecimalField(max_digits=10, decimal_places=2) stores for a value:
\* the value quantized to two places, ties to the even cent (the float is
\* first read to ten significant digits, which gives back its decimal digits
\* for the amounts used here).
Quantize(m) ==
  LET c == m \div 10
      r == m % 10
  IN  IF r < 5 THEN c * 10
      ELSE IF r > 5 THEN (c + 1) * 10
      ELSE IF c % 2 = 0 THEN c * 10 ELSE (c + 1) * 10

\* item.bids: the indexes in bids of the Bid rows of item i
BidsOf(i) == {k \in DOMAIN bids : bids[k].item = i}

MaxAmount(S) == CHOOSE m \in S : \A n \in S : n <= m

\* variant: the row of the least amount
MutTopBids(i) == {k \in BidsOf(i) : \A j \in BidsOf(i) : bids[k].amount <= bids[j].amount}
\* bids.order_by('-amount').first(): a row of the greatest amount; which one
\* among equal amounts is up to the database
TopBids(i) == {k \in BidsOf(i) : \A j \in BidsOf(i) : bids[j].amount <= bids[k].amount}

\* price of views.item: the highest Bid amount, or starting_bid without Bids
CurrentPrice(i) ==
  IF BidsOf(i) # {} THEN MaxAmount({bids[k].amount : k \in BidsOf(i)})
  ELSE items[i].starting_bid

\* rows held by the store; the handlers that insert run while it has room
Rows == Len(items) + Len(bids) + Len(comments) + Cardinality(watchlist)
HasRoom == Rows < MaxRows

Idle == [pc |-> "idle"]

Init ==
  /\ items = <<>>
  /\ bids = <<>>
  /\ comments = <<>>
  /\ watchlist = {}
  /\ response = [kind |-> "none", message |-> "None"]
  /\ workers = [w \in WorkerIds |-> Idle]

\* ---------------------------------------------------------------- handlers
\* Every handler below is one request handled on its own, from the lookup of
\* the item to the response.

Reply(kind, u, i, msg) == [kind |-> kind, user |-> u, item |-> i, message |-> msg]

\* Item.objects.create(... isopen=True, owner=request.user)
\* variant: the row created closed
MutNewItem(u, sb) == [starting_bid |-> Quantize(sb), isopen |-> FALSE, owner |-> u]
NewItem(u, sb) == [starting_bid |-> Quantize(sb), isopen |-> TRUE, owner |-> u]

\* views.create, POST.  An AnonymousUser cannot be assigned to Item.owner: the
\* create raises and no row is written.
Create(u, sb) ==
  /\ Len(items) < MaxItems
  /\ HasRoom
  /\ IF u = Anonymous
       THEN /\ response' = [kind |-> "create", user |-> u, message |-> "error"]
            /\ UNCHANGED items
       ELSE /\ items' = Append(items, NewItem(u, sb))
            /\ response' = [kind |-> "create", user |-> u, message |-> "redirect"]
  /\ UNCHANGED <<bids, comments, watchlist, workers>>

\* views.item with an item_id that has no row: Item.objects.get raises
ItemNotFound(u, i) ==
  /\ i \notin DOMAIN items
  /\ response' = Reply("view", u, i, "error")
  /\ UNCHANGED <<db, workers>>

\* views.item, GET, or a POST carrying none of the four action fields
ViewItem(u, i) ==
  /\ i \in DOMAIN items
  /\ response' = Reply("view", u, i, "None")
  /\ UNCHANGED <<db, workers>>

\* views.item, POST with watchlist_action.  AnonymousUser has no watchlist.
WatchlistAction(u, i, act) ==
  /\ i \in DOMAIN items
  /\ IF u = Anonymous
       THEN /\ response' = Reply("watchlist", u, i, "error")
            /\ UNCHANGED watchlist
       ELSE IF act = "add"
         THEN /\ HasRoom
              /\ watchlist' = watchlist \cup {<<u, i>>}
              /\ response' = Reply("watchlist", u, i, "Added to watchlist")
         ELSE /\ watchlist' = watchlist \ {<<u, i>>}
              /\ response' = Reply("watchlist", u, i, "Removed from watchlist")
  /\ UNCHANGED <<items, bids, comments, workers>>

\* the test of line 62 on the float bid_placed, against the rows read now
BidAccepted(i, m) ==
  \/ BidsOf(i) # {} /\ m > MaxAmount({bids[k].amount : k \in BidsOf(i)})
  \/ BidsOf(i) = {} /\ m > items[i].starting_bid

\* Bid.objects.create(amount=bid_placed, item=item, bidder=request.user): the
\* row as stored
NewBid(u, i, m) == [amount |-> Quantize(m), item |-> i, bidder |-> u]

BidReply(u, i, in, msg) ==
  [kind |-> "bid", user |-> u, item |-> i, input |-> in, message |-> msg]

\* views.item, POST with bid_place.  float() refuses a non-numeric string; an
\* AnonymousUser cannot be assigned to Bid.bidder, and that ValueError is
\* caught by the same except clause.
PlaceBid(u, i, in) ==
  /\ i \in DOMAIN items
  /\ HasRoom
  /\ IF ~in.numeric
       THEN /\ response' = BidReply(u, i, in, "Invalid bid amount.")
            /\ UNCHANGED bids
       ELSE IF BidAccepted(i, in.value)
         THEN IF u = Anonymous
                THEN /\ response' = BidReply(u, i, in, "Invalid bid amount.")
                     /\ UNCHANGED bids
                ELSE /\ bids' = Append(bids, NewBid(u, i, in.value))
                     /\ response' = BidReply(u, i, in, "Bid successful")
         ELSE /\ response' = BidReply(u, i, in, "Bid too low")
              /\ UNCHANGED bids
  /\ UNCHANGED <<items, comments, watchlist, workers>>

\* views.item, POST with comment_text
AddComment(u, i, nonempty) ==
  /\ i \in DOMAIN items
  /\ HasRoom
  /\ IF nonempty /\ u # Anonymous
       THEN /\ comments' = Append(comments, [item |-> i, by |-> u, like |-> 0])
            /\ response' = Reply("comment", u, i, "Comment added.")
       ELSE /\ response' = Reply("comment", u, i, "None")
            /\ UNCHANGED comments
  /\ UNCHANGED <<items, bids, watchlist, workers>>

\* variant: any logged-in user passes
MutMayClose(u, i) == u \in Users
\* request.user == item.owner
MayClose(u, i) == u = items[i].owner

\* variant: the closed flag is written before the highest Bid is read
MutCloseAuction(u, i) ==
  /\ i \in DOMAIN items
  /\ IF MayClose(u, i)
       THEN IF BidsOf(i) = {}
              THEN /\ items' = [items EXCEPT ![i].isopen = FALSE]
                   /\ response' = Reply("close", u, i, "error")
              ELSE \E k \in TopBids(i) :
                     /\ items' = [items EXCEPT ![i].isopen = FALSE,
                                               ![i].owner = bids[k].bidder]
                     /\ response' = Reply("close", u, i, "Auction closed")
       ELSE /\ response' = Reply("close", u, i, "None")
            /\ UNCHANGED items
  /\ UNCHANGED <<bids, comments, watchlist, workers>>
\* views.item, POST with close_auction.  Without Bids first() is None and
\* reading .bidder raises before item.save(): nothing is written.
CloseAuction(u, i) ==
  /\ i \in DOMAIN items
  /\ IF MayClose(u, i)
       THEN IF BidsOf(i) = {}
              THEN /\ response' = Reply("close", u, i, "error")
                   /\ UNCHANGED items
              ELSE \E k \in TopBids(i) :
                     /\ items' = [items EXCEPT ![i].isopen = FALSE,
                                               ![i].owner = bids[k].bidder]
                     /\ response' = Reply("close", u, i, "Auction closed")
       ELSE /\ response' = Reply("close", u, i, "None")
            /\ UNCHANGED items
  /\ UNCHANGED <<bids, comments, watchlist, workers>>

DoCreate == \E u \in Requesters, sb \in StartAmounts : Create(u, sb)
DoItemNotFound == \E u \in Requesters, i \in ItemIds : ItemNotFound(u, i)
DoViewItem == \E u \in Requesters, i \in ItemIds : ViewItem(u, i)
DoWatchlistAction ==
  \E u \in Requesters, i \in ItemIds, act \in {"add", "remove"} : WatchlistAction(u, i, act)
DoPlaceBid == \E u \in Requesters, i \in ItemIds, in \in BidInputs : PlaceBid(u, i, in)
DoAddComment == \E u \in Requesters, i \in ItemIds, ne \in BOOLEAN : AddComment(u, i, ne)
DoCloseAuction == \E u \in Requesters, i \in ItemIds : CloseAuction(u, i)

Next ==
  \/ DoCreate
  \/ DoItemNotFound
  \/ DoViewItem
  \/ DoWatchlistAction
  \/ DoPlaceBid
  \/ DoAddComment
  \/ DoCloseAuction

\* requests handled one at a time
Spec == Init /\ [][Next]_vars

\* ---------------------------------------------------------------- claims
\* In the step formulas below response' is the request the step handled and
\* the unprimed variables are the store that request found.

\* the current price of item i over the rows bs and its
PriceOver(bs, its, i) ==
  LET S == {bs[k].amount : k \in {j \in DOMAIN bs : bs[j].item = i}}
  IN  IF S # {} THEN MaxAmount(S) ELSE its[i].starting_bid

\* C1: a place-bid request of a logged-in user with a numeric amount is
\* accepted exactly when the amount strictly exceeds the current price; on
\* acceptance exactly one Bid carrying that amount, the item and the user is
\* appended and no existing Bid changes; otherwise the reply is "Bid too low"
\* and the Bids are unchanged.
C1_BidAcceptedIffAbovePrice ==
  [][LET r == response' IN
       (r.kind = "bid" /\ r.user \in Users /\ r.input.numeric) =>
         IF r.input.value > CurrentPrice(r.item)
           THEN /\ r.message = "Bid successful"
                /\ bids' = Append(bids, [amount |-> r.input.value, item |-> r.item,
                                         bidder |-> r.user])
           ELSE /\ r.message = "Bid too low"
                /\ bids' = bids]_vars

\* C2: the Bids of each item are strictly increasing in creation order: every
\* Bid exceeds the item's starting price and every earlier Bid on the item.
C2_BidsStrictlyIncreasing ==
  \A k \in DOMAIN bids :
    /\ bids[k].amount > items[bids[k].item].starting_bid
    /\ \A j \in 1..(k - 1) :
         bids[j].item = bids[k].item => bids[j].amount < bids[k].amount

\* the Bids rows bs hold no two rows of one item with the same amount
NoTies(bs) ==
  \A j, k \in DOMAIN bs :
    (j # k /\ bs[j].item = bs[k].item) => bs[j].amount # bs[k].amount

\* C3: when the owner of an open item with at least one Bid closes the
\* auction, the item becomes closed, its owner becomes the bidder of a Bid of
\* the highest amount on it, and no Bid, Comment or watchlist entry changes.
C3_CloseTransfersToHighestBidder ==
  [][LET r == response' IN
       (/\ r.kind = "close"
        /\ r.user = items[r.item].owner
        /\ items[r.item].isopen
        /\ BidsOf(r.item) # {}) =>
         /\ items'[r.item].isopen = FALSE
         /\ \E k \in BidsOf(r.item) :
              /\ bids[k].amount = CurrentPrice(r.item)
              /\ items'[r.item].owner = bids[k].bidder
         /\ bids' = bids
         /\ comments' = comments
         /\ watchlist' = watchlist]_vars

\* C3 witness: an owner has closed an item holding a single Bid of another
\* user, the item is closed and owned by that bidder, and the store holds a
\* Comment and a watchlist entry.
C3_Witness ==
  /\ response.kind = "close"
  /\ response.message = "Auction closed"
  /\ \E k \in DOMAIN bids :
       /\ BidsOf(response.item) = {k}
       /\ bids[k].bidder # response.user
       /\ items[response.item].owner = bids[k].bidder
  /\ ~items[response.item].isopen
  /\ comments # <<>>
  /\ watchlist # {}

\* C4: an item's owner changes only in a close-auction step on an open item
\* (so at most once), and then to the highest bidder; once an item is closed
\* no later request changes its owner.  Stated for the steps taken while no
\* two Bids of an item are equal, where "the highest bidder" is one user.
C4_OwnerChangesOnlyAtFirstClose ==
  [][\A i \in DOMAIN items :
       (NoTies(bids) /\ items'[i].owner # items[i].owner) =>
         /\ items[i].isopen
         /\ response'.kind = "close"
         /\ response'.item = i
         /\ \E k \in BidsOf(i) :
              /\ bids[k].amount = CurrentPrice(i)
              /\ items'[i].owner = bids[k].bidder]_vars

\* C5: a close-auction request on an item that is already closed is rejected,
\* whoever sends it, and leaves the whole store unchanged.
C5_CloseOfClosedItemRejected ==
  [][LET r == response' IN
       (r.kind = "close" /\ ~items[r.item].isopen) =>
         /\ r.message # "Auction closed"
         /\ db' = db]_vars

\* C6: a close-auction request from a user who is not the item's owner
\* changes nothing in the store and produces no message.
C6_NonOwnerCloseIsSilentNoOp ==
  [][LET r == response' IN
       (r.kind = "close" /\ r.user # items[r.item].owner) =>
         /\ db' = db
         /\ r.message = "None"]_vars

\* C6 witness: a logged-in user who does not own an open item with Bids has
\* asked to close it.
C6_Witness ==
  /\ response.kind = "close"
  /\ response.user \in Users
  /\ response.user # items[response.item].owner
  /\ response.message = "None"
  /\ items[response.item].isopen
  /\ BidsOf(response.item) # {}

\* C7: every item is created open; its open flag changes only from open to
\* closed, in a close-auction step of its owner; a closed item stays closed.
C7_OpenToClosedOneWay ==
  [][/\ \A i \in DOMAIN items' \ DOMAIN items : items'[i].isopen
     /\ \A i \in DOMAIN items :
          /\ ~items[i].isopen => ~items'[i].isopen
          /\ items'[i].isopen # items[i].isopen =>
               /\ response'.kind = "close"
               /\ response'.item = i
               /\ response'.user = items[i].owner]_vars

\* C7 witness: a Bid has just been accepted on an item that is closed.
C7_Witness ==
  /\ response.kind = "bid"
  /\ response.message = "Bid successful"
  /\ ~items[response.item].isopen

\* C9: a close-auction request of the owner of an item without Bids fails
\* with an error and leaves the stored item (open, same owner) and the rest
\* of the store unchanged.
C9_CloseWithoutBidsFailsUnsaved ==
  [][LET r == response' IN
       (/\ r.kind = "close"
        /\ r.user = items[r.item].owner
        /\ BidsOf(r.item) = {}) =>
         /\ r.message = "error"
         /\ items'[r.item] = items[r.item]
         /\ db' = db]_vars

\* C9 witness: the owner's close of an open item without Bids has failed.
C9_Witness ==
  /\ response.kind = "close"
  /\ response.message = "error"
  /\ response.user = items[response.item].owner
  /\ items[response.item].isopen
  /\ BidsOf(response.item) = {}

\* C10: a place-bid request of a logged-in user on a closed item with a
\* numeric amount strictly above the current price appends a Bid on that item
\* and raises the item's current price, and leaves every item's open flag and
\* owner unchanged.
C10_BidOnClosedItemRaisesPrice ==
  [][LET r == response' IN
       (/\ r.kind = "bid"
        /\ r.user \in Users
        /\ r.input.numeric
        /\ ~items[r.item].isopen
        /\ r.input.value > CurrentPrice(r.item)) =>
         /\ Len(bids') = Len(bids) + 1
         /\ bids'[Len(bids')].item = r.item
         /\ bids'[Len(bids')].bidder = r.user
         /\ PriceOver(bids', items', r.item) > CurrentPrice(r.item)
         /\ items' = items]_vars

\* ---------------------------------------------------------------- concurrent place-bid requests
\* Requests handled by concurrent workers.  Every ORM call of the place-bid
\* branch is a query of its own against the shared store, and nothing joins
\* them into a transaction: line 62 runs bids.exists(), then either
\* bids.first() or bids.exists() again, and line 63 runs the INSERT.  (The
\* reads of lines 42-43 only feed the rendered page and are left out.)

\* a logged-in user posts bid_place = m on item i; the handler is at line 62
BeginBid(w, u, i, m) ==
  /\ workers[w].pc = "idle"
  /\ i \in DOMAIN items
  /\ HasRoom
  /\ workers' = [workers EXCEPT ![w] = [pc |-> "exists", user |-> u, item |-> i, input |-> m]]
  /\ UNCHANGED <<db, response>>

Rejected(w, seen) ==
  [pc |-> "done", user |-> workers[w].user, item |-> workers[w].item,
   input |-> workers[w].input, seen |-> seen, message |-> "Bid too low"]

Validated(w, seen) ==
  [pc |-> "insert", user |-> workers[w].user, item |-> workers[w].item,
   input |-> workers[w].input, seen |-> seen]

\* line 62, bids.exists(): the left operand of either disjunct
BidsExist(w) ==
  /\ workers[w].pc = "exists"
  /\ workers' = [workers EXCEPT ![w].pc =
                   IF BidsOf(workers[w].item) # {} THEN "first" ELSE "recheck"]
  /\ UNCHANGED <<db, response>>

\* line 62, bid_placed > bids.first().amount
CompareWithFirst(w) ==
  /\ workers[w].pc = "first"
  /\ LET seen == MaxAmount({bids[k].amount : k \in BidsOf(workers[w].item)})
     IN  workers' = [workers EXCEPT ![w] =
                       IF workers[w].input > seen THEN Validated(w, seen)
                       ELSE Rejected(w, seen)]
  /\ UNCHANGED <<db, response>>

\* line 62, (not bids.exists()) and bid_placed > item.starting_bid
CompareWithStart(w) ==
  /\ workers[w].pc = "recheck"
  /\ LET i == workers[w].item
     IN  workers' = [workers EXCEPT ![w] =
                       IF BidsOf(i) = {} /\ workers[w].input > items[i].starting_bid
                         THEN Validated(w, items[i].starting_bid)
                         ELSE Rejected(w, CurrentPrice(i))]
  /\ UNCHANGED <<db, response>>

\* variant: the INSERT made only if the amount still exceeds the price
MutInsertBid(w) ==
  /\ workers[w].pc = "insert"
  /\ IF workers[w].input > CurrentPrice(workers[w].item)
       THEN /\ bids' = Append(bids, NewBid(workers[w].user, workers[w].item, workers[w].input))
            /\ workers' = [workers EXCEPT ![w] =
                 [pc |-> "done", user |-> workers[w].user, item |-> workers[w].item,
                  input |-> workers[w].input, seen |-> workers[w].seen,
                  message |-> "Bid successful"]]
       ELSE /\ bids' = bids
            /\ workers' = [workers EXCEPT ![w] = Rejected(w, workers[w].seen)]
  /\ UNCHANGED <<items, comments, watchlist, response>>
\* line 63, Bid.objects.create: the INSERT, whatever rows the table holds now
InsertBid(w) ==
  /\ workers[w].pc = "insert"
  /\ bids' = Append(bids, NewBid(workers[w].user, workers[w].item, workers[w].input))
  /\ workers' = [workers EXCEPT ![w] =
       [pc |-> "done", user |-> workers[w].user, item |-> workers[w].item,
        input |-> workers[w].input, seen |-> workers[w].seen,
        message |-> "Bid successful"]]
  /\ UNCHANGED <<items, comments, watchlist, response>>

DoBeginBid ==
  \E w \in WorkerIds, u \in Users, i \in ItemIds, m \in Amounts : BeginBid(w, u, i, m)
DoBidsExist == \E w \in WorkerIds : BidsExist(w)
DoCompareWithFirst == \E w \in WorkerIds : CompareWithFirst(w)
DoCompareWithStart == \E w \in WorkerIds : CompareWithStart(w)
DoInsertBid == \E w \in WorkerIds : InsertBid(w)

NextConc ==
  \/ DoCreate
  \/ DoBeginBid
  \/ DoBidsExist
  \/ DoCompareWithFirst
  \/ DoCompareWithStart
  \/ DoInsertBid

\* create requests one at a time, place-bid requests interleaved query by query
SpecConc == Init /\ [][NextConc]_vars

\* C8: between a request's reads of the price and its insert other requests
\* may insert, and the insert is not conditioned on the rows then present:
\* every request that found its amount above the price it read appends its
\* Bid.  So two requests that read the same price both succeed (C8_Witness).
C8_ValidatedInsertAlwaysSucceeds ==
  [][\A w \in WorkerIds :
       (workers[w].pc = "insert" /\ workers'[w].pc = "done") =>
         /\ workers[w].input > workers[w].seen
         /\ workers'[w].message = "Bid successful"
         /\ Len(bids') = Len(bids) + 1
         /\ bids'[Len(bids')] =
              [amount |-> Quantize(workers[w].input), item |-> workers[w].item,
               bidder |-> workers[w].user]]_vars

\* C8 witness: two requests posted the same whole-cent amount on one item,
\* both read the same current price, both inserts succeeded, and the item
\* holds two Bids of that amount.
C8_Witness ==
  \E w1, w2 \in WorkerIds :
    /\ w1 # w2
    /\ workers[w1].pc = "done" /\ workers[w2].pc = "done"
    /\ workers[w1].message = "Bid successful" /\ workers[w2].message = "Bid successful"
    /\ workers[w1].item = workers[w2].item
    /\ workers[w1].input = workers[w2].input
    /\ workers[w1].input % 10 = 0
    /\ workers[w1].seen = workers[w2].seen
    /\ \E j, k \in BidsOf(workers[w1].item) :
         /\ j < k
         /\ bids[j].amount = workers[w1].input
         /\ bids[k].amount = workers[w1].input

====
